---- MODULE Spec2Model ----
(***************************************************************************)
(* Model of VPF_Calculator.py: the salary and business slab tables, the    *)
(* two tax resolvers and pension_tax_calculator.                           *)
(*                                                                         *)
(* Python numbers are modelled by their values as exact rationals          *)
(* <<n, d>> (d > 0, lowest terms); None is the empty tuple.  The rates of  *)
(* the business table (0.05, 0.125, ...) are the rationals 1/20, 1/8, ...  *)
(* they denote; binary rounding error of the float operations is not part  *)
(* of the model.  round(x, 0) is Python's round-half-to-even.              *)
(***************************************************************************)
EXTENDS Integers, Sequences, FiniteSets, TLC

VARIABLES
    salary_slabs,    \* module global, lines 10-31: bound -> tax
    business_slabs,  \* module global, lines 36-45: <<limit, base_tax, rate>>
    income_type,     \* argument of pension_tax_calculator
    annual_income,   \* argument of pension_tax_calculator
    pension_invest,  \* argument of pension_tax_calculator (None when absent)
    pc,              \* "idle" before a call, "done" after it returned
    tax_2026,        \* locals of the last call, None while unassigned
    avg_tax_rate,
    max_invest,
    invest,
    rebate,
    new_tax,
    result,          \* returned value: None or the nine-field dict
    earlier          \* history: arguments and result of a remembered call

vars == <<salary_slabs, business_slabs, income_type, annual_income,
          pension_invest, pc, tax_2026, avg_tax_rate, max_invest, invest,
          rebate, new_tax, result, earlier>>

-----------------------------------------------------------------------------
(* Bounds of the explored inputs *)

\* monthly incomes are taken this many units below and above each slab bound / 12
MaxOff == 1
\* requested investments are 0/10 .. MaxTenths/10 of the annual income
MaxTenths == 3

-----------------------------------------------------------------------------
(* Python values *)

None == <<>>

Abs(n) == IF n < 0 THEN -n ELSE n

RECURSIVE GCD(_, _)
GCD(a, b) == IF b = 0 THEN a ELSE GCD(b, a % b)

LCM(a, b) == (a \div GCD(a, b)) * b

Norm(n, d) == LET g == GCD(Abs(n), d) IN <<n \div g, d \div g>>

Num(n) == <<n, 1>>

\* x + y, x - y over the least common denominator
RSub(x, y) ==
    LET l == LCM(x[2], y[2])
    IN  Norm(x[1] * (l \div x[2]) - y[1] * (l \div y[2]), l)

RAdd(x, y) ==
    LET l == LCM(x[2], y[2])
    IN  Norm(x[1] * (l \div x[2]) + y[1] * (l \div y[2]), l)

\* x * y, cancelling across before multiplying
RMul(x, y) ==
    LET g1 == GCD(Abs(x[1]), y[2])
        g2 == GCD(Abs(y[1]), x[2])
    IN  <<(x[1] \div g1) * (y[1] \div g2), (x[2] \div g2) * (y[2] \div g1)>>

\* x / y for y # 0
RDiv(x, y) ==
    IF y[1] > 0 THEN RMul(x, <<y[2], y[1]>>)
                ELSE RMul(x, <<-y[2], -y[1]>>)

RLeq(x, y) ==
    LET l == LCM(x[2], y[2])
    IN  x[1] * (l \div x[2]) <= y[1] * (l \div y[2])

RLt(x, y) == ~RLeq(y, x)

RMin(x, y) == IF RLeq(x, y) THEN x ELSE y

\* round(x, 0): nearest whole number, ties to the even one
Round(x) ==
    LET q == x[1] \div x[2]
        r == x[1] % x[2]
    IN  IF 2 * r < x[2] THEN q
        ELSE IF 2 * r > x[2] THEN q + 1
        ELSE IF q % 2 = 0 THEN q ELSE q + 1

-----------------------------------------------------------------------------
(* The slab tables *)

\* float("inf")
Inf == -1

LeqLimit(x, limit) == limit = Inf \/ RLeq(x, Num(limit))

SalarySlabsTypo ==
    (600000 :> 6000) @@ (1200000 :> 6000) @@ (1800000 :> 72000) @@
    (2400000 :> 162000) @@ (2700000 :> 231000) @@ (3000000 :> 300000) @@
    (3600000 :> 466000) @@ (4200000 :> 651000) @@ (4800000 :> 861000) @@
    (5400000 :> 1071000) @@ (6000000 :> 1281000) @@ (6600000 :> 1491000) @@
    (7200000 :> 1701000) @@ (9600000 :> 2541000) @@ (12000000 :> 3692850) @@
    (18000000 :> 5981850) @@ (24000000 :> 8270850) @@ (30000000 :> 10559850) @@
    (33600000 :> 11933250) @@ (36000000 :> 12848850)

SalarySlabs ==
    (600000 :> 0) @@ (1200000 :> 6000) @@ (1800000 :> 72000) @@
    (2400000 :> 162000) @@ (2700000 :> 231000) @@ (3000000 :> 300000) @@
    (3600000 :> 466000) @@ (4200000 :> 651000) @@ (4800000 :> 861000) @@
    (5400000 :> 1071000) @@ (6000000 :> 1281000) @@ (6600000 :> 1491000) @@
    (7200000 :> 1701000) @@ (9600000 :> 2541000) @@ (12000000 :> 3692850) @@
    (18000000 :> 5981850) @@ (24000000 :> 8270850) @@ (30000000 :> 10559850) @@
    (33600000 :> 11933250) @@ (36000000 :> 12848850)

BusinessSlabsTypo ==
    << <<600000, 0, <<0, 1>> >>,
       <<800000, 0, <<1, 20>> >>,
       <<1200000, 10000, <<1, 8>> >>,
       <<2400000, 60000, <<7, 40>> >>,
       <<3000000, 207000, <<9, 40>> >>,
       <<4000000, 405000, <<11, 40>> >>,
       <<6000000, 680000, <<13, 40>> >>,
       <<Inf, 1330000, <<7, 20>> >> >>

BusinessSlabs ==
    << <<600000, 0, <<0, 1>> >>,
       <<800000, 0, <<1, 20>> >>,
       <<1200000, 10000, <<1, 8>> >>,
       <<2400000, 60000, <<7, 40>> >>,
       <<3000000, 270000, <<9, 40>> >>,
       <<4000000, 405000, <<11, 40>> >>,
       <<6000000, 680000, <<13, 40>> >>,
       <<Inf, 1330000, <<7, 20>> >> >>

-----------------------------------------------------------------------------
(* calculate_business_tax, lines 48-56 *)

LowerBoundZero(i) == 0

lower_bound(i) == IF i > 1 THEN business_slabs[i - 1][1] ELSE 0

RECURSIVE BusinessScan(_, _)
BusinessScan(i, income) ==
    IF i > Len(business_slabs) THEN Num(0)
    ELSE IF LeqLimit(income, business_slabs[i][1])
         THEN RAdd(Num(business_slabs[i][2]),
                   RMul(RSub(income, Num(lower_bound(i))), business_slabs[i][3]))
         ELSE BusinessScan(i + 1, income)

calculate_business_tax(income) ==
    IF RLeq(income, Num(600000)) THEN Num(0)
    ELSE BusinessScan(1, income)

-----------------------------------------------------------------------------
(* get_salaried_tax, lines 59-65 *)

\* sorted(): ascending sequence of the elements of S
RECURSIVE sorted(_)
sorted(S) ==
    IF S = {} THEN <<>>
    ELSE LET m == CHOOSE x \in S : \A y \in S : x <= y
         IN  <<m>> \o sorted(S \ {m})

RECURSIVE SalariedScan(_, _, _)
SalariedScan(sorted_slabs, i, income) ==
    IF i > Len(sorted_slabs) THEN Num(salary_slabs[sorted_slabs[Len(sorted_slabs)]])
    ELSE IF RLeq(income, Num(sorted_slabs[i]))
         THEN Num(salary_slabs[sorted_slabs[i]])
         ELSE SalariedScan(sorted_slabs, i + 1, income)

SalariedTaxStrict(income) ==
    LET sorted_slabs == sorted(DOMAIN salary_slabs)
        F[i \in 1..(Len(sorted_slabs) + 1)] ==
            IF i > Len(sorted_slabs)
            THEN Num(salary_slabs[sorted_slabs[Len(sorted_slabs)]])
            ELSE IF RLt(income, Num(sorted_slabs[i]))
                 THEN Num(salary_slabs[sorted_slabs[i]])
                 ELSE F[i + 1]
    IN  F[1]

SalariedTaxNoTop(income) ==
    LET sorted_slabs == sorted(DOMAIN salary_slabs)
        F[i \in 1..(Len(sorted_slabs) + 1)] ==
            IF i > Len(sorted_slabs) THEN Num(0)
            ELSE IF RLeq(income, Num(sorted_slabs[i]))
                 THEN Num(salary_slabs[sorted_slabs[i]])
                 ELSE F[i + 1]
    IN  F[1]

get_salaried_tax(income) ==
    SalariedScan(sorted(DOMAIN salary_slabs), 1, income)

-----------------------------------------------------------------------------
(* pension_tax_calculator, lines 68-100 *)

\* str.title() on the two recognized classifications
Title(s) == CASE s = "salaried" -> "Salaried"
              [] s = "business" -> "Business"
              [] OTHER -> s

\* lines 69-74: the base tax, None for an unrecognized classification
ResolveTax(type, income) ==
    CASE type = "salaried" -> get_salaried_tax(income)
      [] type = "business" -> calculate_business_tax(income)
      [] OTHER -> None

\* line 79
AvgTaxRate(tax, income) ==
    IF RLt(Num(0), tax) THEN RDiv(tax, income) ELSE Num(0)

\* line 80
MaxInvest(income) == RMul(<<1, 5>>, income)

\* lines 82-85
InvestUnclamped(requested, cap) ==
    IF requested = None \/ requested = Num(0) THEN cap ELSE requested

Invest(requested, cap) ==
    IF requested = None \/ requested = Num(0) THEN cap
    ELSE RMin(requested, cap)

\* line 87
RebateNoRate(amount, rate) == amount

Rebate(amount, rate) == RMul(amount, rate)

\* line 88
NewTaxAdded(tax, saving) == RAdd(tax, saving)

NewTax(tax, saving) == RSub(tax, saving)

FieldNames ==
    {"Income Type", "Annual Income", "Monthly Income", "Tax Without Pension",
     "Max Pension Investment (20%)", "Your Pension Investment", "Tax Saving",
     "New Tax Payable", "Monthly Saving"}

\* lines 90-100
ResultDict(type, income, tax, cap, amount, saving, payable) ==
    [k \in FieldNames |->
        CASE k = "Income Type" -> Title(type)
          [] k = "Annual Income" -> Round(income)
          [] k = "Monthly Income" -> Round(RDiv(income, Num(12)))
          [] k = "Tax Without Pension" -> Round(tax)
          [] k = "Max Pension Investment (20%)" -> Round(cap)
          [] k = "Your Pension Investment" -> Round(amount)
          [] k = "Tax Saving" -> Round(saving)
          [] k = "New Tax Payable" -> Round(payable)
          [] k = "Monthly Saving" -> Round(RDiv(saving, Num(12)))]

\* the locals and the returned value when the function returns
Frame(tax, rate, cap, amount, saving, payable, ret) ==
    [tax_2026 |-> tax, avg_tax_rate |-> rate, max_invest |-> cap,
     invest |-> amount, rebate |-> saving, new_tax |-> payable, ret |-> ret]

RejectNonPositive(type, income, requested) ==
    LET tax == ResolveTax(type, income)
    IN  IF tax = None THEN Frame(None, None, None, None, None, None, <<None>>)
        ELSE IF RLeq(income, Num(0))
        THEN Frame(tax, None, None, None, None, None, <<None>>)
        ELSE LET rate == AvgTaxRate(tax, income)
                 cap == MaxInvest(income)
                 amount == Invest(requested, cap)
                 saving == Rebate(amount, rate)
                 payable == NewTax(tax, saving)
             IN  Frame(tax, rate, cap, amount, saving, payable,
                       <<ResultDict(type, income, tax, cap, amount, saving, payable)>>)

pension_tax_calculator(type, income, requested) ==
    LET tax == ResolveTax(type, income)
    IN  IF tax = None THEN Frame(None, None, None, None, None, None, <<None>>)
        ELSE IF income = Num(0)
        THEN Frame(tax, None, None, None, None, None, <<None>>)
        ELSE LET rate == AvgTaxRate(tax, income)
                 cap == MaxInvest(income)
                 amount == Invest(requested, cap)
                 saving == Rebate(amount, rate)
                 payable == NewTax(tax, saving)
             IN  Frame(tax, rate, cap, amount, saving, payable,
                       <<ResultDict(type, income, tax, cap, amount, saving, payable)>>)

-----------------------------------------------------------------------------
(* Inputs *)

IncomeTypes == {"salaried", "business", "freelancer"}

\* the slab bounds of both tables, and 0
Bounds ==
    DOMAIN SalarySlabs
    \cup {BusinessSlabs[i][1] : i \in 1..(Len(BusinessSlabs) - 1)}
    \cup {0}

AnnualIncomes == Bounds

MonthlyIncomes == {b \div 12 + k : b \in Bounds, k \in (-MaxOff)..MaxOff}

\* requested investments for an income: absent, or k tenths of its magnitude
Requests(income) ==
    {None} \cup {Norm(k * Abs(income[1]), 10 * income[2]) : k \in 0..MaxTenths}

\* the invocations whose first occurrence is remembered in `earlier`
Scenario(type, income) == type = "salaried" /\ income = Num(1200000)

-----------------------------------------------------------------------------
(* State machine *)

Init ==
    /\ salary_slabs = SalarySlabs
    /\ business_slabs = BusinessSlabs
    /\ income_type = "salaried"
    /\ annual_income = Num(10000 * 12)
    /\ pension_invest = None
    /\ pc = "idle"
    /\ tax_2026 = None
    /\ avg_tax_rate = None
    /\ max_invest = None
    /\ invest = None
    /\ rebate = None
    /\ new_tax = None
    /\ result = <<None>>
    /\ earlier = None

\* a new run of the form: nothing has been computed for the new inputs
Reset ==
    /\ pc' = "idle"
    /\ pension_invest' = None
    /\ tax_2026' = None
    /\ avg_tax_rate' = None
    /\ max_invest' = None
    /\ invest' = None
    /\ rebate' = None
    /\ new_tax' = None
    /\ result' = <<None>>

\* line 138
ChooseIncomeType(t) ==
    /\ income_type' = t
    /\ Reset
    /\ UNCHANGED <<salary_slabs, business_slabs, annual_income, earlier>>

\* lines 141-143
ChooseMonthlyIncome(m) ==
    /\ annual_income' = Num(m * 12)
    /\ Reset
    /\ UNCHANGED <<salary_slabs, business_slabs, income_type, earlier>>

\* lines 144-146
ChooseAnnualIncome(a) ==
    /\ annual_income' = Num(a)
    /\ Reset
    /\ UNCHANGED <<salary_slabs, business_slabs, income_type, earlier>>

\* history only: the first scenario invocation with its result, and whether
\* an invocation with other arguments has returned since
Remember(p, ret) ==
    IF earlier = None
    THEN IF Scenario(income_type, annual_income)
         THEN <<income_type, annual_income, p, ret, FALSE>>
         ELSE None
    ELSE IF <<income_type, annual_income, p>> = <<earlier[1], earlier[2], earlier[3]>>
         THEN earlier
         ELSE [earlier EXCEPT ![5] = TRUE]

CalculateMemoizing(p) ==
    LET f == pension_tax_calculator(income_type, annual_income, p)
    IN  /\ pc = "idle"
        /\ pension_invest' = p
        /\ pc' = "done"
        /\ tax_2026' = f.tax_2026
        /\ avg_tax_rate' = f.avg_tax_rate
        /\ max_invest' = f.max_invest
        /\ invest' = f.invest
        /\ rebate' = f.rebate
        /\ new_tax' = f.new_tax
        /\ result' = f.ret
        /\ earlier' = Remember(p, f.ret)
        /\ salary_slabs' =
             IF income_type = "salaried" /\ f.ret # <<None>>
             THEN (annual_income[1] :> Round(f.new_tax)) @@ salary_slabs
             ELSE salary_slabs
        /\ UNCHANGED <<business_slabs, income_type, annual_income>>

\* lines 153-156: the requested investment is entered and the button pressed
Calculate(p) ==
    LET f == pension_tax_calculator(income_type, annual_income, p)
    IN  /\ pc = "idle"
        /\ pension_invest' = p
        /\ pc' = "done"
        /\ tax_2026' = f.tax_2026
        /\ avg_tax_rate' = f.avg_tax_rate
        /\ max_invest' = f.max_invest
        /\ invest' = f.invest
        /\ rebate' = f.rebate
        /\ new_tax' = f.new_tax
        /\ result' = f.ret
        /\ earlier' = Remember(p, f.ret)
        /\ UNCHANGED <<salary_slabs, business_slabs, income_type, annual_income>>

Next ==
    \/ \E t \in IncomeTypes : ChooseIncomeType(t)
    \/ \E m \in MonthlyIncomes : ChooseMonthlyIncome(m)
    \/ \E a \in AnnualIncomes : ChooseAnnualIncome(a)
    \/ \E p \in Requests(annual_income) : Calculate(p)

Spec == Init /\ [][Next]_vars

-----------------------------------------------------------------------------
(* Vocabulary of the properties *)

Recognized == income_type \in {"salaried", "business"}

\* the last call returned a Calculation Result
Returned == pc = "done" /\ result # <<None>>

Positive(x) == RLt(Num(0), x)

\* every income the model can enter
Incomes == AnnualIncomes \cup {12 * m : m \in MonthlyIncomes}

\* 20% of the annual income
Cap == Norm(annual_income[1], 5 * annual_income[2])

Field(k) == result[1][k]

RMax(x, y) == IF RLeq(x, y) THEN y ELSE x

\* the part of the income lying in bracket i of the business table
Portion(i, income) ==
    LET lo == IF i = 1 THEN Num(0) ELSE Num(business_slabs[i - 1][1])
        hi == IF business_slabs[i][1] = Inf THEN income
              ELSE RMin(income, Num(business_slabs[i][1]))
    IN  RMax(Num(0), RSub(hi, lo))

RECURSIVE ProgressiveSum(_, _)
ProgressiveSum(i, income) ==
    IF i = 0 THEN Num(0)
    ELSE RAdd(ProgressiveSum(i - 1, income),
              RMul(business_slabs[i][3], Portion(i, income)))

\* index of the first bracket of the business table whose bound is >= income
FirstBracket(income) ==
    CHOOSE i \in 1..Len(business_slabs) :
        /\ LeqLimit(income, business_slabs[i][1])
        /\ \A j \in 1..(i - 1) : ~LeqLimit(income, business_slabs[j][1])

BracketFormula(income) ==
    LET i == FirstBracket(income)
        prev == IF i = 1 THEN 0 ELSE business_slabs[i - 1][1]
    IN  RAdd(Num(business_slabs[i][2]),
             RMul(RSub(income, Num(prev)), business_slabs[i][3]))

\* the salary-slab bounds that are >= income
BoundsAtLeast(income) == {b \in DOMAIN salary_slabs : RLeq(income, Num(b))}

Least(S) == CHOOSE x \in S : \A y \in S : x <= y

Greatest(S) == CHOOSE x \in S : \A y \in S : y <= x

-----------------------------------------------------------------------------
(* C1: pension_tax_calculator returns None exactly when the classification *)
(* is neither "salaried" nor "business" or the annual income is 0; every   *)
(* other call, whatever the requested investment, returns a dict with all  *)
(* nine fields.                                                            *)
NoResultExactlyWhenInvalid ==
    pc = "done" =>
        /\ (result = <<None>>) <=> (~Recognized \/ annual_income = Num(0))
        /\ result # <<None>> =>
              /\ DOMAIN result[1] = FieldNames
              /\ Cardinality(DOMAIN result[1]) = 9

\* an unrecognized classification is rejected after a scenario call returned
\* its nine fields
RejectedAfterAccepted ==
    /\ pc = "done"
    /\ income_type = "freelancer"
    /\ Positive(annual_income)
    /\ result = <<None>>
    /\ earlier # None
    /\ earlier[4] # <<None>>

(* C2: for a recognized classification, a positive income and a            *)
(* non-negative requested investment the tax saving never exceeds the base *)
(* tax, and the new tax payable is never negative.                         *)
SavingAtMostBaseTax ==
    (Returned /\ Positive(annual_income)) =>
        /\ RLeq(rebate, tax_2026)
        /\ RLeq(Num(0), new_tax)
        /\ Field("Tax Saving") <= Field("Tax Without Pension")
        /\ Field("New Tax Payable") >= 0

\* a taxed business income with a request above the cap
SavingOnTaxedIncome ==
    /\ Returned
    /\ income_type = "business"
    /\ pension_invest # None
    /\ RLt(Cap, pension_invest)
    /\ Positive(rebate)
    /\ RLt(rebate, tax_2026)

(* C3, as stated: the reported New Tax Payable equals the reported Tax     *)
(* Without Pension minus the reported Tax Saving.                          *)
ReportedFieldsSubtract ==
    (Returned /\ Positive(annual_income)) =>
        Field("New Tax Payable") = Field("Tax Without Pension") - Field("Tax Saving")

(* C3, amended: the unrounded new tax is the base tax minus the rebate,    *)
(* and the reported (separately rounded) New Tax Payable differs from Tax  *)
(* Without Pension minus Tax Saving by at most one unit.                   *)
ReportedFieldsWithinOne ==
    (Returned /\ Positive(annual_income)) =>
        /\ RAdd(new_tax, rebate) = tax_2026
        /\ Field("New Tax Payable") = Round(new_tax)
        /\ Field("Tax Without Pension") = Round(tax_2026)
        /\ Field("Tax Saving") = Round(rebate)
        /\ Abs(Field("New Tax Payable")
               - (Field("Tax Without Pension") - Field("Tax Saving"))) <= 1

\* a report whose three rounded fields are off by exactly one
ReportedFieldsOffByOne ==
    /\ Returned
    /\ Positive(annual_income)
    /\ Positive(rebate)
    /\ Abs(Field("New Tax Payable")
           - (Field("Tax Without Pension") - Field("Tax Saving"))) = 1

(* C4: the effective investment is the request clamped to 20% of the       *)
(* annual income: the cap when the request is absent, 0 or above the cap,  *)
(* the request when it is positive and at most the cap, never above the    *)
(* cap.                                                                    *)
InvestIsClampedRequest ==
    (Returned /\ Positive(annual_income)) =>
        /\ max_invest = Cap
        /\ RLeq(invest, Cap)
        /\ pension_invest = None => invest = Cap
        /\ pension_invest # None =>
              /\ (pension_invest = Num(0) \/ RLt(Cap, pension_invest)) => invest = Cap
              /\ (Positive(pension_invest) /\ RLeq(pension_invest, Cap)) =>
                    invest = pension_invest
        /\ Field("Your Pension Investment") <= Field("Max Pension Investment (20%)")

\* a request above the cap was cut down to the cap
RequestAboveCapClamped ==
    /\ Returned
    /\ Positive(annual_income)
    /\ pension_invest # None
    /\ RLt(Cap, pension_invest)
    /\ invest = Cap
    /\ invest # pension_invest

(* C5: for a non-negative income calculate_business_tax returns the sum    *)
(* over all brackets of each bracket's rate on the part of the income in   *)
(* that bracket, which is the first matching bracket's base tax plus       *)
(* (income - previous bound) * rate; 270,000 at 2,400,000.                 *)
BusinessTaxIsProgressive ==
    (pc = "done" /\ income_type = "business" /\ RLeq(Num(0), annual_income)) =>
        /\ tax_2026 = ProgressiveSum(Len(business_slabs), annual_income)
        /\ tax_2026 = BracketFormula(annual_income)
        /\ RLeq(annual_income, Num(600000)) => tax_2026 = Num(0)
        /\ annual_income = Num(2400000) => tax_2026 = Num(270000)

\* the business scenario of the specification
BusinessScenario ==
    /\ pc = "done"
    /\ income_type = "business"
    /\ annual_income = Num(2400000)
    /\ tax_2026 = Num(270000)

(* C6: for a non-negative income get_salaried_tax returns the tax of the   *)
(* smallest salary-slab bound >= the income (a bound resolves to its own   *)
(* tax), and the tax of the largest bound when the income exceeds every    *)
(* bound.                                                                  *)
SalariedTaxIsSmallestBound ==
    (pc = "done" /\ income_type = "salaried" /\ RLeq(Num(0), annual_income)) =>
        /\ BoundsAtLeast(annual_income) # {} =>
              tax_2026 = Num(salary_slabs[Least(BoundsAtLeast(annual_income))])
        /\ BoundsAtLeast(annual_income) = {} =>
              /\ Greatest(DOMAIN salary_slabs) = 36000000
              /\ tax_2026 = Num(salary_slabs[36000000])
        /\ annual_income[1] \in DOMAIN salary_slabs =>
              tax_2026 = Num(salary_slabs[annual_income[1]])

\* an income above every bound, after the salaried scenario resolved the
\* bound 1,200,000 to its own tax
SalariedAboveTopAfterBound ==
    /\ pc = "done"
    /\ income_type = "salaried"
    /\ RLt(Num(36000000), annual_income)
    /\ tax_2026 = Num(12848850)
    /\ earlier # None
    /\ earlier[1] = "salaried"
    /\ earlier[4][1]["Tax Without Pension"] = 6000

(* C7: the business table is continuous at every finite bound: a           *)
(* bracket's base tax plus its rate across its full width is the next      *)
(* bracket's base tax, so the tax at a bound is the next bracket's base    *)
(* tax and the tax above a bound exceeds the tax at the bound by the next  *)
(* bracket's rate on the distance from the bound.                          *)
BusinessTaxContinuous ==
    /\ \A i \in 1..(Len(business_slabs) - 1) :
          RAdd(Num(business_slabs[i][2]),
               RMul(business_slabs[i][3],
                    Num(business_slabs[i][1]
                        - (IF i = 1 THEN 0 ELSE business_slabs[i - 1][1]))))
          = Num(business_slabs[i + 1][2])
    /\ (pc = "done" /\ income_type = "business") =>
          \A i \in 1..(Len(business_slabs) - 1) :
              /\ annual_income = Num(business_slabs[i][1]) =>
                    tax_2026 = Num(business_slabs[i + 1][2])
              /\ (/\ RLt(Num(business_slabs[i][1]), annual_income)
                  /\ LeqLimit(annual_income, business_slabs[i + 1][1])) =>
                    RSub(tax_2026, calculate_business_tax(Num(business_slabs[i][1])))
                    = RMul(business_slabs[i + 1][3],
                           RSub(annual_income, Num(business_slabs[i][1])))

\* the tax at the bound 3,000,000 is the base tax of the bracket above it
BusinessTaxAtBound ==
    /\ pc = "done"
    /\ income_type = "business"
    /\ annual_income = Num(3000000)
    /\ tax_2026 = Num(405000)

(* C8: for every annual income <= 600,000 and both classifications the     *)
(* resolved base tax is 0.                                                 *)
NoTaxUpTo600000 ==
    (pc = "done" /\ Recognized /\ RLeq(annual_income, Num(600000))) =>
        tax_2026 = Num(0)

\* the income 600,000 itself, resolved for a salaried taxpayer
NoTaxAt600000 ==
    /\ pc = "done"
    /\ income_type = "salaried"
    /\ annual_income = Num(600000)
    /\ tax_2026 = Num(0)
    /\ result # <<None>>

(* C9: get_salaried_tax is monotonically non-decreasing in income, also    *)
(* above the largest slab bound.                                           *)
SalariedTaxMonotone ==
    (pc = "done" /\ income_type = "salaried") =>
        \A b \in Incomes :
            RLeq(annual_income, Num(b)) => RLeq(tax_2026, get_salaried_tax(Num(b)))

\* an income above the largest bound, taxed like the largest bound and more
\* than a lower income
SalariedTopTier ==
    /\ pc = "done"
    /\ income_type = "salaried"
    /\ RLt(Num(Greatest(DOMAIN salary_slabs)), annual_income)
    /\ tax_2026 = get_salaried_tax(Num(Greatest(DOMAIN salary_slabs)))
    /\ \E b \in Incomes : RLt(get_salaried_tax(Num(b)), tax_2026)

(* C10: invocations are independent and stateless: the slab tables never   *)
(* change, and an invocation with the arguments of an earlier one returns  *)
(* the earlier result whatever was invoked in between.                     *)
InvocationsIndependent ==
    /\ salary_slabs = SalarySlabs
    /\ business_slabs = BusinessSlabs
    /\ (/\ pc = "done"
        /\ earlier # None
        /\ <<income_type, annual_income, pension_invest>>
              = <<earlier[1], earlier[2], earlier[3]>>) =>
          result = earlier[4]

\* the remembered invocation is repeated after invocations with other
\* arguments, valid and rejected
RepeatedAfterOthers ==
    /\ pc = "done"
    /\ earlier # None
    /\ earlier[5]
    /\ <<income_type, annual_income, pension_invest>>
          = <<earlier[1], earlier[2], earlier[3]>>
    /\ result = earlier[4]
    /\ result # <<None>>

====
